---- MODULE Spec2Model ----
(***************************************************************************)
(* A model of emonhub.py: the EmonHub object (its listener and dispatcher  *)
(* dictionaries, its per-dispatcher queues, the buffer back-up table), the *)
(* settings update (_update_settings), the main loop (run), the SIGINT     *)
(* handler and close().                                                    *)
(*                                                                         *)
(* Objects are modelled with an identity: every listener / dispatcher /    *)
(* queue ever constructed under a name is an element of a per-name         *)
(* sequence, and a dictionary entry holds the index of the object it       *)
(* refers to (0: the key is not in the dictionary).                        *)
(***************************************************************************)
EXTENDS Naturals, Sequences, FiniteSets, TLC

-----------------------------------------------------------------------------
(* Bounds of the model *)

\* settings updates performed by run() (the one of __init__ not counted)
MaxTicks == 1
\* records the listeners produce in a run
MaxRecords == 2

-----------------------------------------------------------------------------
(* Input domains *)

DNames == {"d1", "d2"}
LNames == {"l1", "l2"}

\* an empty dictionary
NoSettings == <<>>

\* classes of emonhub_dispatcher / emonhub_listener that getattr() resolves
DispatcherClasses == {"EmonHubEmoncmsDispatcher"}
ListenerClasses == {"EmonHubJeeListener"}

\* init_settings values; the constructors raise their InitError on "bad"
GoodInit == {"a", "b"}
BadInit == "bad"

\* a descriptor with / without the 'type' key
Desc(t, i, r) == [type |-> t, init_settings |-> i, runtime_settings |-> r]
DescNoType(i, r) == [init_settings |-> i, runtime_settings |-> r]

\* the plain descriptor of a component
PlainDispatcher == Desc("EmonHubEmoncmsDispatcher", "a", NoSettings)
PlainListener == Desc("EmonHubJeeListener", "a", NoSettings)

\* descriptors of the dispatcher under edit: a pause value of the list and one
\* outside it, two accepted init_settings, a rejected one, an unresolvable
\* type, an empty type, no type (with the init_settings kept or changed)
DispatcherDescs ==
    {Desc("EmonHubEmoncmsDispatcher", i, r) :
        i \in GoodInit, r \in {NoSettings, [pause |-> "true"]}}
    \cup {Desc("EmonHubEmoncmsDispatcher", "a", [pause |-> "out"]),
          Desc("EmonHubEmoncmsDispatcher", BadInit, NoSettings),
          Desc("NoSuchDispatcher", "a", NoSettings),
          Desc("", "a", NoSettings),
          DescNoType("a", NoSettings), DescNoType("b", NoSettings)}

\* descriptors of the listener under edit
ListenerDescs ==
    {Desc("EmonHubJeeListener", i, NoSettings) : i \in GoodInit}
    \cup {Desc("EmonHubJeeListener", "a", [interval |-> "5"]),
          Desc("EmonHubJeeListener", BadInit, NoSettings),
          Desc("NoSuchListener", "a", NoSettings),
          Desc("", "a", NoSettings),
          DescNoType("a", NoSettings)}

\* "d1" / "l1" range over all these descriptors, "d2" / "l2" are plain or missing
DescsOf(name) ==
    CASE name = "d1" -> DispatcherDescs
      [] name = "d2" -> {PlainDispatcher}
      [] name = "l1" -> ListenerDescs
      [] name = "l2" -> {PlainListener}

\* the dictionaries name -> descriptor over a subset of the names
Sections(names) ==
    UNION {{f \in [N -> UNION {DescsOf(n) : n \in N}] :
               \A n \in N : f[n] \in DescsOf(n)} : N \in SUBSET names}

BaseDispatchers == [n \in {"d1"} |-> PlainDispatcher]
BaseListeners == [n \in {"l1"} |-> PlainListener]

\* the settings files of the model: any dispatchers section beside one plain
\* listener, or any listeners section beside one plain dispatcher
Snapshots ==
    {[dispatchers |-> d, listeners |-> BaseListeners] : d \in Sections(DNames)}
    \cup {[dispatchers |-> BaseDispatchers, listeners |-> l] : l \in Sections(LNames)}

\* the orders a dictionary of these keys can be iterated in
Orders(S) ==
    {p \in [1..Cardinality(S) -> S] : \A i, j \in 1..Cardinality(S) : p[i] = p[j] => i = j}

Keys(dict) == {n \in DOMAIN dict : dict[n] # 0}

-----------------------------------------------------------------------------
(* State *)

VARIABLES
    pc,            \* where the process is: "init", "head", "settings", "poll",
                   \* "sleep", "closing", "stopped", "crashed", "exited"
    _exit,         \* EmonHub._exit
    settings,      \* interface.settings
    _dispatchers,  \* EmonHub._dispatchers: name -> dispatcher object (0: no key)
    _listeners,    \* EmonHub._listeners: name -> listener object (0: no key)
    _queue,        \* EmonHub._queue: name -> queue object (0: no key)
    temp_buffer,   \* EmonHub.temp_buffer: name -> buffer contents
    dobj,          \* the dispatcher objects ever constructed, per name
    lobj,          \* the listener objects ever constructed, per name
    queues,        \* the Queue objects ever constructed, per name: their contents
    sweep,         \* the listeners the current pass has still to visit
    ticks,         \* settings updates performed by run()
    nrec,          \* records produced so far
    errors,        \* names the last settings update logged an error for
    setcalls,      \* the set() calls of the last settings update
    raised,        \* the exception that left the last settings update
    history,       \* records read, with the dispatchers live and not paused then,
                   \* the exit flag then, and whether it is the first of its pass
    passread,      \* a record has been read in the pass that is under way
    taken          \* per queue, the records its dispatcher has taken off it

vars == <<pc, _exit, settings, _dispatchers, _listeners, _queue, temp_buffer, dobj,
          lobj, queues, sweep, ticks, nrec, errors, setcalls, raised, history,
          passread, taken>>

-----------------------------------------------------------------------------
(* The collaborators: emonhub_dispatcher, emonhub_listener *)

\* getattr(ehd, type) / getattr(ehl, type): AttributeError when the module has
\* no attribute of that name
DispatcherClassExists(type) == type \in DispatcherClasses
ListenerClassExists(type) == type \in ListenerClasses

\* the constructors raise EmonHubDispatcherInitError / EmonHubListenerInitError
DispatcherInitError(type, init) == init = BadInit
ListenerInitError(type, init) == init = BadInit

\* a freshly constructed dispatcher / listener
NewDispatcher(q) ==
    [init_settings |-> NoSettings, _settings |-> NoSettings, stop |-> FALSE,
     buffer |-> <<>>, queue |-> q]
NewListener == [init_settings |-> NoSettings, _settings |-> NoSettings, closed |-> 0]

\* set(**kwargs): the given keys are stored in the object's _settings
ApplySettings(old, kwargs) ==
    [k \in DOMAIN old \cup DOMAIN kwargs |->
        IF k \in DOMAIN kwargs THEN kwargs[k] ELSE old[k]]

-----------------------------------------------------------------------------
(* _update_settings, on a record h of the hub's fields *)

Raise(h, exc) == [h EXCEPT !.raised = exc]

\* a comparison that takes in the runtime settings as well
AnySettingsDiffer(obj, desc) ==
    obj.init_settings # desc.init_settings \/ obj._settings # desc.runtime_settings

\* line 136 / 175: the recorded init_settings differ from the file copy
InitSettingsDiffer(obj, desc) == obj.init_settings # desc.init_settings

\* line 141 / 179: still in the settings, with a 'type'
StillListed(section, name) == name \in DOMAIN section /\ "type" \in DOMAIN section[name]

\* lines 137-138: back up a non-empty buffer
BackupBuffer(h, name) ==
    LET d == h.dobj[name][h._dispatchers[name]]
    IN  IF d.buffer # <<>>
        THEN [h EXCEPT !.temp_buffer =
                 [n \in DOMAIN @ \cup {name} |-> IF n = name THEN d.buffer ELSE @[n]]]
        ELSE h

\* the dispatcher is dropped without being told to stop
RemoveDispatcherNoStop(h, name) == [h EXCEPT !._dispatchers[name] = 0]

\* lines 144-146
RemoveDispatcher(h, name) ==
    [h EXCEPT !.dobj[name][h._dispatchers[name]].stop = TRUE,
              !._dispatchers[name] = 0]

\* lines 135-146: one pass of the first dispatcher loop
DeleteDispatcher(h, s, name) ==
    IF name \notin DOMAIN s.dispatchers
    THEN Raise(h, "KeyError")
    ELSE IF InitSettingsDiffer(h.dobj[name][h._dispatchers[name]], s.dispatchers[name])
    THEN RemoveDispatcher(BackupBuffer(h, name), name)
    ELSE IF StillListed(s.dispatchers, name)
    THEN h
    ELSE RemoveDispatcher(h, name)

\* line 170
SetDispatcher(h, name, kwargs) ==
    [h EXCEPT !.dobj[name][h._dispatchers[name]]._settings = ApplySettings(@, kwargs),
              !.setcalls = @ \cup {<<"dispatcher", name, h._dispatchers[name]>>}]

\* a rebuild that does not copy the back-up over
RestoredBufferNever(temp, name, own) == own

\* lines 160-162: the buffer of the new dispatcher
RestoredBuffer(temp, name, own) == IF name \in DOMAIN temp THEN temp[name] ELSE own
WithoutBackup(temp, name) == [n \in DOMAIN temp \ {name} |-> temp[n]]

\* the queue is given to the constructor but kept by the hub only when the hub
\* holds none for the name
BuildDispatcherOwnQueue(h, name, dis) ==
    LET q  == Len(h.queues[name]) + 1
        h1 == [h EXCEPT !.queues[name] = Append(@, <<>>),
                        !.taken[name] = Append(@, <<>>),
                        !._queue[name] = IF @ = 0 THEN q ELSE @]
        g  == Len(h.dobj[name]) + 1
        d  == [NewDispatcher(q) EXCEPT
                 !.init_settings = dis.init_settings,
                 !.buffer = RestoredBuffer(h.temp_buffer, name, @)]
    IN  IF ~DispatcherClassExists(dis.type)
        THEN Raise(h1, "AttributeError")
        ELSE IF DispatcherInitError(dis.type, dis.init_settings)
        THEN [h1 EXCEPT !.errors = @ \cup {<<"dispatcher", name>>}]
        ELSE [h1 EXCEPT !.dobj[name] = Append(@, d),
                        !.temp_buffer = WithoutBackup(@, name),
                        !._dispatchers[name] = g]

\* lines 155-168: queue, constructor, init_settings, buffer, registration
BuildDispatcher(h, name, dis) ==
    LET q  == Len(h.queues[name]) + 1
        h1 == [h EXCEPT !.queues[name] = Append(@, <<>>),
                        !.taken[name] = Append(@, <<>>),
                        !._queue[name] = q]
        g  == Len(h.dobj[name]) + 1
        d  == [NewDispatcher(q) EXCEPT
                 !.init_settings = dis.init_settings,
                 !.buffer = RestoredBuffer(h.temp_buffer, name, @)]
    IN  IF ~DispatcherClassExists(dis.type)
        THEN Raise(h1, "AttributeError")
        ELSE IF DispatcherInitError(dis.type, dis.init_settings)
        THEN [h1 EXCEPT !.errors = @ \cup {<<"dispatcher", name>>}]
        ELSE [h1 EXCEPT !.dobj[name] = Append(@, d),
                        !.temp_buffer = WithoutBackup(@, name),
                        !._dispatchers[name] = g]

\* lines 148-170: one pass of the second dispatcher loop
CreateDispatcher(h, s, name) ==
    LET dis == s.dispatchers[name]
    IN  IF h._dispatchers[name] = 0
        THEN IF "type" \notin DOMAIN dis
             THEN h
             ELSE LET h1 == BuildDispatcher(h, name, dis)
                  IN  IF h1._dispatchers[name] = 0
                      THEN h1
                      ELSE SetDispatcher(h1, name, dis.runtime_settings)
        ELSE SetDispatcher(h, name, dis.runtime_settings)

\* the listener is dropped without being closed
RemoveListenerNoClose(h, name) == [h EXCEPT !._listeners[name] = 0]

\* lines 181-183
RemoveListener(h, name) ==
    [h EXCEPT !.lobj[name][h._listeners[name]].closed = @ + 1,
              !._listeners[name] = 0]

\* a first listener loop that takes no action when the init_settings differ
DeleteListenerNoAction(h, s, name) ==
    IF name \notin DOMAIN s.listeners
    THEN Raise(h, "KeyError")
    ELSE IF InitSettingsDiffer(h.lobj[name][h._listeners[name]], s.listeners[name])
    THEN h
    ELSE IF StillListed(s.listeners, name)
    THEN h
    ELSE RemoveListener(h, name)

\* lines 174-183: one pass of the first listener loop
DeleteListener(h, s, name) ==
    IF name \notin DOMAIN s.listeners
    THEN Raise(h, "KeyError")
    ELSE IF InitSettingsDiffer(h.lobj[name][h._listeners[name]], s.listeners[name])
    THEN RemoveListener(h, name)
    ELSE IF StillListed(s.listeners, name)
    THEN h
    ELSE RemoveListener(h, name)

\* line 202
SetListener(h, name, kwargs) ==
    [h EXCEPT !.lobj[name][h._listeners[name]]._settings = ApplySettings(@, kwargs),
              !.setcalls = @ \cup {<<"listener", name, h._listeners[name]>>}]

\* lines 190-200
BuildListener(h, name, lis) ==
    LET g == Len(h.lobj[name]) + 1
        l == [NewListener EXCEPT !.init_settings = lis.init_settings]
    IN  IF ~ListenerClassExists(lis.type)
        THEN Raise(h, "AttributeError")
        ELSE IF ListenerInitError(lis.type, lis.init_settings)
        THEN [h EXCEPT !.errors = @ \cup {<<"listener", name>>}]
        ELSE [h EXCEPT !.lobj[name] = Append(@, l), !._listeners[name] = g]

\* lines 185-202: one pass of the second listener loop
CreateListener(h, s, name) ==
    LET lis == s.listeners[name]
    IN  IF h._listeners[name] = 0
        THEN IF "type" \notin DOMAIN lis
             THEN h
             ELSE LET h1 == BuildListener(h, name, lis)
                  IN  IF h1._listeners[name] = 0
                      THEN h1
                      ELSE SetListener(h1, name, lis.runtime_settings)
        ELSE SetListener(h, name, lis.runtime_settings)

\* the four loops: an exception ends the loop and the method
RECURSIVE DeleteDispatchers(_, _, _)
DeleteDispatchers(h, s, ord) ==
    IF ord = <<>> \/ h.raised # "none" THEN h
    ELSE DeleteDispatchers(DeleteDispatcher(h, s, Head(ord)), s, Tail(ord))

RECURSIVE CreateDispatchers(_, _, _)
CreateDispatchers(h, s, ord) ==
    IF ord = <<>> \/ h.raised # "none" THEN h
    ELSE CreateDispatchers(CreateDispatcher(h, s, Head(ord)), s, Tail(ord))

RECURSIVE DeleteListeners(_, _, _)
DeleteListeners(h, s, ord) ==
    IF ord = <<>> \/ h.raised # "none" THEN h
    ELSE DeleteListeners(DeleteListener(h, s, Head(ord)), s, Tail(ord))

RECURSIVE CreateListeners(_, _, _)
CreateListeners(h, s, ord) ==
    IF ord = <<>> \/ h.raised # "none" THEN h
    ELSE CreateListeners(CreateListener(h, s, Head(ord)), s, Tail(ord))

\* the hub's fields as a record, and the observations of one settings update
Hub ==
    [_dispatchers |-> _dispatchers, _listeners |-> _listeners, _queue |-> _queue,
     temp_buffer |-> temp_buffer, dobj |-> dobj, lobj |-> lobj, queues |-> queues,
     taken |-> taken, errors |-> errors, setcalls |-> setcalls, raised |-> raised]

\* lines 124-205; o gives the iteration order of each of the four loops
_update_settings(h, s, o) ==
    LET h0 == [h EXCEPT !.temp_buffer = <<>>, !.errors = {}, !.setcalls = {},
                        !.raised = "none"]
        h1 == DeleteDispatchers(h0, s, o.dd)
        h2 == CreateDispatchers(h1, s, o.cd)
        h3 == DeleteListeners(h2, s, o.dl)
    IN  CreateListeners(h3, s, o.cl)

\* the iteration orders that the dictionaries of h and s allow
LoopOrders(h, s) ==
    [dd : Orders(Keys(h._dispatchers)), cd : Orders(DOMAIN s.dispatchers),
     dl : Orders(Keys(h._listeners)), cl : Orders(DOMAIN s.listeners)]

-----------------------------------------------------------------------------
(* run(): the fan-out of lines 94-100 *)

\* the list of line 98 with one spelling lost
PauseValuesShort == {"i", "I", "in", "In", "IN", "t", "T", "True", "TRUE"}

\* line 98
PauseValues == {"i", "I", "in", "In", "IN", "t", "T", "true", "True", "TRUE"}

\* lines 96-98
Paused(d) == "pause" \in DOMAIN d._settings /\ d._settings["pause"] \in PauseValues

\* values is put on every queue the hub holds, whether the name is registered or not
FanOutAllQueues(values) ==
    [n \in DNames |->
        IF _queue[n] # 0 /\ ~(_dispatchers[n] # 0 /\ Paused(dobj[n][_dispatchers[n]]))
        THEN [queues[n] EXCEPT ![_queue[n]] = Append(@, values)]
        ELSE queues[n]]

\* values is put at the front of the queues
FanOutFront(values) ==
    [n \in DNames |->
        IF _dispatchers[n] # 0 /\ ~Paused(dobj[n][_dispatchers[n]])
        THEN [queues[n] EXCEPT ![_queue[n]] = <<values>> \o @]
        ELSE queues[n]]

\* lines 94-100: values is put on the queue of every dispatcher that is not paused
FanOut(values) ==
    [n \in DNames |->
        IF _dispatchers[n] # 0 /\ ~Paused(dobj[n][_dispatchers[n]])
        THEN [queues[n] EXCEPT ![_queue[n]] = Append(@, values)]
        ELSE queues[n]]

\* the dispatcher objects that are registered and whose applied settings do not
\* hold a pause value of the list (recorded with every record read)
Receivers ==
    {<<n, _dispatchers[n]>> : n \in
        {m \in Keys(_dispatchers) :
            LET st == dobj[m][_dispatchers[m]]._settings
            IN  ~("pause" \in DOMAIN st /\
                  st["pause"] \in {"i", "I", "in", "In", "IN", "t", "T", "true", "True", "TRUE"})}}

-----------------------------------------------------------------------------
(* Initial state and actions *)

NoObjects(names) == [n \in names |-> <<>>]
NoKeys(names) == [n \in names |-> 0]

\* the process before EmonHub(interface) (line 285): lines 48-63
Init ==
    /\ pc = "init"
    /\ _exit = FALSE
    /\ settings = [dispatchers |-> <<>>, listeners |-> <<>>]
    /\ _dispatchers = NoKeys(DNames)
    /\ _listeners = NoKeys(LNames)
    /\ _queue = NoKeys(DNames)
    /\ temp_buffer = <<>>
    /\ dobj = NoObjects(DNames)
    /\ lobj = NoObjects(LNames)
    /\ queues = NoObjects(DNames)
    /\ sweep = <<>>
    /\ ticks = 0
    /\ nrec = 0
    /\ errors = {}
    /\ setcalls = {}
    /\ raised = "none"
    /\ history = <<>>
    /\ passread = FALSE
    /\ taken = NoObjects(DNames)

\* the hub's fields after a settings update
Updated(h) ==
    /\ _dispatchers' = h._dispatchers
    /\ _listeners' = h._listeners
    /\ _queue' = h._queue
    /\ temp_buffer' = h.temp_buffer
    /\ dobj' = h.dobj
    /\ lobj' = h.lobj
    /\ queues' = h.queues
    /\ taken' = h.taken
    /\ errors' = h.errors
    /\ setcalls' = h.setcalls
    /\ raised' = h.raised

\* lines 285-289: EmonHub(interface), with the settings the interface has read;
\* an exception ends the process (line 287), otherwise run() starts
Construct ==
    /\ pc = "init"
    /\ \E s \in Snapshots : \E o \in LoopOrders(Hub, s) :
          LET h == _update_settings(Hub, s, o)
          IN  /\ settings' = s
              /\ Updated(h)
              /\ pc' = IF h.raised = "none" THEN "head" ELSE "exited"
    /\ UNCHANGED <<_exit, sweep, ticks, nrec, history, passread>>

\* a loop that never tests the exit flag
LoopHeadForever ==
    /\ pc = "head"
    /\ pc' = "settings"
    /\ UNCHANGED <<_exit, settings, _dispatchers, _listeners, _queue, temp_buffer, dobj,
                   lobj, queues, sweep, ticks, nrec, errors, setcalls, raised, history,
                   passread, taken>>

\* line 78: the loop-head check
LoopHead ==
    /\ pc = "head"
    /\ pc' = IF _exit THEN "closing" ELSE "settings"
    /\ UNCHANGED <<_exit, settings, _dispatchers, _listeners, _queue, temp_buffer, dobj,
                   lobj, queues, sweep, ticks, nrec, errors, setcalls, raised, history,
                   passread, taken>>

\* line 86: the pass over the listeners starts
StartSweep(lis) ==
    /\ sweep' \in Orders(Keys(lis))
    /\ pc' = IF Keys(lis) = {} THEN "sleep" ELSE "poll"

\* the settings are applied in every iteration, changed or not
SettingsAppliedAnyway ==
    /\ pc = "settings"
    /\ \E o \in LoopOrders(Hub, settings) :
          LET h == _update_settings(Hub, settings, o)
          IN  /\ Updated(h)
              /\ IF h.raised = "none"
                 THEN StartSweep(h._listeners)
                 ELSE pc' = "crashed" /\ sweep' = <<>>
    /\ UNCHANGED <<_exit, settings, ticks, nrec, history, passread>>

\* lines 81-82: check_settings() reports no change
SettingsUnchanged ==
    /\ pc = "settings"
    /\ StartSweep(_listeners)
    /\ UNCHANGED <<_exit, settings, _dispatchers, _listeners, _queue, temp_buffer, dobj,
                   lobj, queues, ticks, nrec, errors, setcalls, raised, history, passread,
                   taken>>

\* lines 81-83: check_settings() reports a change; the settings are updated. An
\* exception leaves run() and ends the process
SettingsChanged ==
    /\ pc = "settings"
    /\ ticks < MaxTicks
    /\ \E s \in Snapshots \ {settings} : \E o \in LoopOrders(Hub, s) :
          LET h == _update_settings(Hub, s, o)
          IN  /\ settings' = s
              /\ Updated(h)
              /\ IF h.raised = "none"
                 THEN StartSweep(h._listeners)
                 ELSE pc' = "crashed" /\ sweep' = <<>>
    /\ ticks' = ticks + 1
    /\ UNCHANGED <<_exit, nrec, history, passread>>

\* a pass that is left as soon as the exit flag is set
NextListenerOrBreak ==
    /\ sweep' = Tail(sweep)
    /\ pc' = IF Tail(sweep) = <<>> \/ _exit THEN "sleep" ELSE "poll"

\* the pass moves on to the next listener, or to the sleep of line 103
NextListener ==
    /\ sweep' = Tail(sweep)
    /\ pc' = IF Tail(sweep) = <<>> THEN "sleep" ELSE "poll"

\* lines 88-92: run(), and read() returns None
ReadNone ==
    /\ pc = "poll"
    /\ NextListener
    /\ passread' = (passread /\ Tail(sweep) # <<>>)
    /\ UNCHANGED <<_exit, settings, _dispatchers, _listeners, _queue, temp_buffer, dobj,
                   lobj, queues, ticks, nrec, errors, setcalls, raised, history, taken>>

\* lines 88-100: run(), read() returns values, which are fanned out: line 100 puts
\* the list read() returned, the n-th object read, on every queue
ReadValues ==
    /\ pc = "poll"
    /\ nrec < MaxRecords
    /\ nrec' = nrec + 1
    /\ queues' = FanOut([listener |-> Head(sweep), n |-> nrec + 1])
    /\ history' = Append(history, [values |-> [listener |-> Head(sweep), n |-> nrec + 1],
                                   to |-> Receivers, exit |-> _exit,
                                   first |-> ~passread])
    /\ passread' = (Tail(sweep) # <<>>)
    /\ NextListener
    /\ UNCHANGED <<_exit, settings, _dispatchers, _listeners, _queue, temp_buffer, dobj,
                   lobj, ticks, errors, setcalls, raised, taken>>

\* line 103
Sleep ==
    /\ pc = "sleep"
    /\ pc' = "head"
    /\ UNCHANGED <<_exit, settings, _dispatchers, _listeners, _queue, temp_buffer, dobj,
                   lobj, queues, sweep, ticks, nrec, errors, setcalls, raised, history,
                   passread, taken>>

\* lines 117-122: the handler of line 75 runs between any two steps of run()
_sigint_handler ==
    /\ pc \in {"head", "settings", "poll", "sleep"}
    /\ _exit' = TRUE
    /\ UNCHANGED <<pc, settings, _dispatchers, _listeners, _queue, temp_buffer, dobj,
                   lobj, queues, sweep, ticks, nrec, errors, setcalls, raised, history,
                   passread, taken>>

\* lines 105-115, called at line 291
close ==
    /\ pc = "closing"
    /\ lobj' = [n \in LNames |->
                  IF _listeners[n] # 0
                  THEN [lobj[n] EXCEPT ![_listeners[n]].closed = @ + 1]
                  ELSE lobj[n]]
    /\ dobj' = [n \in DNames |->
                  IF _dispatchers[n] # 0
                  THEN [dobj[n] EXCEPT ![_dispatchers[n]].stop = TRUE]
                  ELSE dobj[n]]
    /\ pc' = "stopped"
    /\ UNCHANGED <<_exit, settings, _dispatchers, _listeners, _queue, temp_buffer,
                   queues, sweep, ticks, nrec, errors, setcalls, raised, history, passread,
                   taken>>

\* a running dispatcher takes the next record off its queue into its buffer
DispatcherTake ==
    /\ pc \in {"head", "settings", "poll", "sleep"}
    /\ \E n \in DNames : \E g \in 1..Len(dobj[n]) :
          LET d == dobj[n][g]
          IN  /\ ~d.stop
              /\ queues[n][d.queue] # <<>>
              /\ queues' = [queues EXCEPT ![n][d.queue] = Tail(@)]
              /\ taken' = [taken EXCEPT ![n][d.queue] = Append(@, Head(queues[n][d.queue]))]
              /\ dobj' = [dobj EXCEPT ![n][g].buffer = Append(@, Head(queues[n][d.queue]))]
    /\ UNCHANGED <<pc, _exit, settings, _dispatchers, _listeners, _queue, temp_buffer,
                   lobj, sweep, ticks, nrec, errors, setcalls, raised, history, passread>>

Next ==
    \/ Construct
    \/ LoopHead
    \/ SettingsUnchanged
    \/ SettingsChanged
    \/ ReadNone
    \/ ReadValues
    \/ Sleep
    \/ _sigint_handler
    \/ close
    \/ DispatcherTake

Spec == Init /\ [][Next]_vars

\* the steps of the main thread: __init__, run() and close()
MainThread ==
    \/ Construct \/ LoopHead \/ SettingsUnchanged \/ SettingsChanged
    \/ ReadNone \/ ReadValues \/ Sleep \/ close

\* the main thread is not held up for ever: check_settings(), every listener's
\* run() and read(), the sleep of line 103 and close() all return
FairSpec == Spec /\ WF_vars(MainThread)

-----------------------------------------------------------------------------
(* Vocabulary of the properties *)

\* a step of run() that updates the settings
Tick == pc = "settings" /\ ticks' # ticks

\* the registered dispatcher / listener objects
LiveD(n) == dobj[n][_dispatchers[n]]
LiveL(n) == lobj[n][_listeners[n]]

\* the records that were read while dispatcher object id was registered and
\* held no pause value of the list, in the order they were read
Delivered(id) ==
    LET s == SelectSeq(history, LAMBDA e : id \in e.to)
    IN  [i \in 1..Len(s) |-> s[i].values]

\* everything that was ever put on queue q of name n
Received(n, q) == taken[n][q] \o queues[n][q]

-----------------------------------------------------------------------------
(* C1: pause isolation. The queue of every registered dispatcher has received      *)
(* exactly the records that were read while it was registered and its applied      *)
(* settings held no 'pause' value of the list, in the order they were read: none   *)
(* of the records read while it was paused, all of the others.                     *)
C1_PauseIsolation ==
    \A n \in Keys(_dispatchers) :
        Received(n, LiveD(n).queue) = Delivered(<<n, _dispatchers[n]>>)

\* two records were read while d1 was paused with "true" and d2 was not paused:
\* d2 has received both, in order, and d1 none
C1_Witness ==
    /\ _dispatchers["d1"] # 0 /\ _dispatchers["d2"] # 0
    /\ "pause" \in DOMAIN LiveD("d1")._settings
    /\ LiveD("d1")._settings["pause"] = "true"
    /\ nrec = 2
    /\ Received("d1", LiveD("d1").queue) = <<>>
    /\ Len(Received("d2", LiveD("d2").queue)) = 2
    /\ Received("d2", LiveD("d2").queue)[1].n = 1
    /\ Received("d2", LiveD("d2").queue)[2].n = 2

\* a descriptor that a handle can be built from
ValidDispatcher(dis) ==
    /\ "type" \in DOMAIN dis
    /\ DispatcherClassExists(dis.type)
    /\ ~DispatcherInitError(dis.type, dis.init_settings)
ValidListener(lis) ==
    /\ "type" \in DOMAIN lis
    /\ ListenerClassExists(lis.type)
    /\ ~ListenerInitError(lis.type, lis.init_settings)

\* a call of _update_settings: the one of __init__, or one of run()
Update == (pc = "init" /\ pc' # "init") \/ Tick

\* section sec of the new settings differs from the old one only in the
\* init_settings of name n, whose descriptor keeps its 'type'
OnlyInitChanged(sec, n) ==
    /\ n \in DOMAIN settings[sec] /\ n \in DOMAIN settings'[sec]
    /\ "type" \in DOMAIN settings[sec][n]
    /\ settings'[sec][n].init_settings # settings[sec][n].init_settings
    /\ settings' = [settings EXCEPT
                      ![sec][n].init_settings = settings'[sec][n].init_settings]

-----------------------------------------------------------------------------
(* C2: buffer preservation across a rebuild. A settings update that changes only   *)
(* the init_settings of a registered dispatcher whose buffer is not empty, and     *)
(* whose constructor accepts the new init_settings, returns with a new object      *)
(* registered under the name: its buffer is the old buffer, its init_settings are  *)
(* the new ones, its queue is a new, empty queue (the one the hub holds for the    *)
(* name), and the old object has its stop flag set.                                *)
C2_BufferPreserved ==
    [][\A n \in DNames :
          (/\ Tick
           /\ _dispatchers[n] # 0
           /\ LiveD(n).buffer # <<>>
           /\ OnlyInitChanged("dispatchers", n)
           /\ <<"dispatcher", n>> \notin errors')
          => /\ raised' = "none"
             /\ _dispatchers'[n] = Len(dobj[n]) + 1
             /\ Len(dobj'[n]) = Len(dobj[n]) + 1
             /\ dobj'[n][_dispatchers'[n]].buffer = LiveD(n).buffer
             /\ dobj'[n][_dispatchers'[n]].init_settings = settings'.dispatchers[n].init_settings
             /\ dobj'[n][_dispatchers'[n]].queue = Len(queues[n]) + 1
             /\ Len(queues'[n]) = Len(queues[n]) + 1
             /\ _queue'[n] = Len(queues[n]) + 1
             /\ queues'[n][_queue'[n]] = <<>>
             /\ dobj'[n][_dispatchers[n]].stop
             /\ ~dobj'[n][_dispatchers'[n]].stop]_vars

\* d1 was rebuilt from init_settings "a" to "b": the second object is registered,
\* has taken nothing from its own queue and holds a record in its buffer
C2_Witness ==
    /\ Len(dobj["d1"]) = 2
    /\ _dispatchers["d1"] = 2
    /\ dobj["d1"][1].init_settings = "a" /\ dobj["d1"][1].stop
    /\ dobj["d1"][1].buffer # <<>>
    /\ dobj["d1"][2].init_settings = "b"
    /\ dobj["d1"][2].buffer = dobj["d1"][1].buffer
    /\ taken["d1"][dobj["d1"][2].queue] = <<>>
    /\ queues["d1"][dobj["d1"][2].queue] = <<>>
    /\ dobj["d1"][2].queue # dobj["d1"][1].queue

-----------------------------------------------------------------------------
(* C3, as the specification states it: a settings update that changes only the     *)
(* init_settings of a registered listener leaves the same object registered under  *)
(* the name, and does not call close() on it.                                      *)
C3_ListenerKept ==
    [][\A n \in LNames :
          (Tick /\ _listeners[n] # 0 /\ OnlyInitChanged("listeners", n))
          => /\ _listeners'[n] = _listeners[n]
             /\ lobj'[n][_listeners[n]].closed = LiveL(n).closed]_vars

(* C3, amended: a settings update that changes only the init_settings of a         *)
(* registered listener calls close() on the registered object, once, and removes   *)
(* it; on return the name is registered to a newly constructed object that records *)
(* the new init_settings when the constructor accepts them, and to no object when  *)
(* it raises its init error.                                                       *)
C3_ListenerRebuilt ==
    [][\A n \in LNames :
          (Tick /\ _listeners[n] # 0 /\ OnlyInitChanged("listeners", n))
          => /\ raised' = "none"
             /\ lobj'[n][_listeners[n]].closed = LiveL(n).closed + 1
             /\ _listeners'[n] # _listeners[n]
             /\ IF ListenerInitError(settings'.listeners[n].type,
                                     settings'.listeners[n].init_settings)
                THEN _listeners'[n] = 0 /\ lobj'[n] = [lobj[n] EXCEPT ![_listeners[n]].closed = @ + 1]
                ELSE /\ _listeners'[n] = Len(lobj[n]) + 1
                     /\ Len(lobj'[n]) = Len(lobj[n]) + 1
                     /\ lobj'[n][_listeners'[n]].init_settings =
                            settings'.listeners[n].init_settings
                     /\ lobj'[n][_listeners'[n]].closed = 0]_vars

\* l1 was rebuilt from init_settings "a" to "b": the first object is closed, the
\* second one is registered
C3_Witness ==
    /\ Len(lobj["l1"]) = 2
    /\ _listeners["l1"] = 2
    /\ lobj["l1"][1].init_settings = "a" /\ lobj["l1"][1].closed = 1
    /\ lobj["l1"][2].init_settings = "b" /\ lobj["l1"][2].closed = 0
    /\ pc \in {"poll", "sleep"}

-----------------------------------------------------------------------------
(* C4: deletion by omission of the name. A settings update whose settings no       *)
(* longer list the name of a registered dispatcher or listener returns without     *)
(* raising; afterwards no object is registered under the name, the removed         *)
(* dispatcher has its stop flag set, the removed listener was closed, and every    *)
(* valid descriptor of the settings has its object registered.                     *)
C4_DeletionByName ==
    [][/\ \A n \in DNames :
             (Tick /\ _dispatchers[n] # 0 /\ n \notin DOMAIN settings'.dispatchers)
             => /\ raised' = "none"
                /\ _dispatchers'[n] = 0
                /\ dobj'[n][_dispatchers[n]].stop
                /\ \A m \in DOMAIN settings'.dispatchers :
                      ValidDispatcher(settings'.dispatchers[m]) => _dispatchers'[m] # 0
                /\ \A m \in DOMAIN settings'.listeners :
                      ValidListener(settings'.listeners[m]) => _listeners'[m] # 0
       /\ \A n \in LNames :
             (Tick /\ _listeners[n] # 0 /\ n \notin DOMAIN settings'.listeners)
             => /\ raised' = "none"
                /\ _listeners'[n] = 0
                /\ lobj'[n][_listeners[n]].closed = LiveL(n).closed + 1
                /\ \A m \in DOMAIN settings'.dispatchers :
                      ValidDispatcher(settings'.dispatchers[m]) => _dispatchers'[m] # 0
                /\ \A m \in DOMAIN settings'.listeners :
                      ValidListener(settings'.listeners[m]) => _listeners'[m] # 0]_vars

-----------------------------------------------------------------------------
(* C5: deletion by omission of the type. A settings update whose settings still    *)
(* list a registered dispatcher or listener, without its 'type', ends with no      *)
(* object registered under the name, the stop flag of the removed dispatcher set   *)
(* (the removed listener closed), and no new object built for the name.            *)
C5_DeletionByType ==
    [][/\ \A n \in DNames :
             (/\ Tick /\ _dispatchers[n] # 0
              /\ n \in DOMAIN settings'.dispatchers
              /\ "type" \notin DOMAIN settings'.dispatchers[n])
             => /\ _dispatchers'[n] = 0
                /\ dobj'[n][_dispatchers[n]].stop
                /\ Len(dobj'[n]) = Len(dobj[n])
       /\ \A n \in LNames :
             (/\ Tick /\ _listeners[n] # 0
              /\ n \in DOMAIN settings'.listeners
              /\ "type" \notin DOMAIN settings'.listeners[n])
             => /\ _listeners'[n] = 0
                /\ lobj'[n][_listeners[n]].closed = LiveL(n).closed + 1
                /\ Len(lobj'[n]) = Len(lobj[n])]_vars

\* the same, of the settings updates that return: C5 fails only where the
\* update is left by the KeyError of C4 or the AttributeError of C6
C5_DeletionByTypeOnReturn ==
    [][/\ \A n \in DNames :
             (/\ Tick /\ _dispatchers[n] # 0
              /\ raised' = "none"
              /\ n \in DOMAIN settings'.dispatchers
              /\ "type" \notin DOMAIN settings'.dispatchers[n])
             => /\ _dispatchers'[n] = 0
                /\ dobj'[n][_dispatchers[n]].stop
                /\ Len(dobj'[n]) = Len(dobj[n])
       /\ \A n \in LNames :
             (/\ Tick /\ _listeners[n] # 0
              /\ raised' = "none"
              /\ n \in DOMAIN settings'.listeners
              /\ "type" \notin DOMAIN settings'.listeners[n])
             => /\ _listeners'[n] = 0
                /\ lobj'[n][_listeners[n]].closed = LiveL(n).closed + 1
                /\ Len(lobj'[n]) = Len(lobj[n])]_vars

-----------------------------------------------------------------------------
(* C6: creation failure isolation for an unresolvable type. A settings update      *)
(* whose dispatchers section holds one descriptor with a 'type' that names no      *)
(* dispatcher class, all the others being valid, raises nothing, logs an error for *)
(* the invalid descriptor, registers an object for every valid one, and leaves as  *)
(* many registered dispatchers as there are valid descriptors.                     *)
C6_UnresolvableTypeIsolated ==
    [][\A n \in DNames :
          (/\ Update
           /\ n \in DOMAIN settings'.dispatchers
           /\ "type" \in DOMAIN settings'.dispatchers[n]
           /\ ~DispatcherClassExists(settings'.dispatchers[n].type)
           /\ \A m \in DOMAIN settings'.dispatchers \ {n} :
                 ValidDispatcher(settings'.dispatchers[m]))
          => /\ raised' = "none"
             /\ <<"dispatcher", n>> \in errors'
             /\ \A m \in DOMAIN settings'.dispatchers \ {n} : _dispatchers'[m] # 0
             /\ Keys(_dispatchers') = DOMAIN settings'.dispatchers \ {n}]_vars

-----------------------------------------------------------------------------
(* C8: no buffer is dropped by a rebuild. In every settings update that returns,   *)
(* for every registered dispatcher whose recorded init_settings differ from the    *)
(* settings and whose buffer is not empty, the buffer is on return the buffer of   *)
(* an object registered under the same name, and temp_buffer has no entry for the  *)
(* name. (The updates that raise are left out: the claim fails without them.)      *)
C8_NoBufferDropped ==
    [][\A n \in DNames :
          (/\ Tick /\ _dispatchers[n] # 0
           /\ raised' = "none"
           /\ n \in DOMAIN settings'.dispatchers
           /\ LiveD(n).init_settings # settings'.dispatchers[n].init_settings
           /\ LiveD(n).buffer # <<>>)
          => /\ _dispatchers'[n] # 0
             /\ dobj'[n][_dispatchers'[n]].buffer = LiveD(n).buffer
             /\ n \notin DOMAIN temp_buffer']_vars

-----------------------------------------------------------------------------
(* C9: queue existence matches handle existence. While run() is between two        *)
(* settings updates, the hub holds a queue for a name if and only if a dispatcher  *)
(* is registered under the name.                                                   *)
C9_QueueIffHandle ==
    pc \in {"head", "settings", "poll", "sleep"}
    => \A n \in DNames : _queue[n] # 0 <=> _dispatchers[n] # 0

-----------------------------------------------------------------------------
(* C7: cooperative shutdown. With the exit flag set, a pass over the listeners     *)
(* goes on to its last listener, each record read in it being put on the queue of  *)
(* every dispatcher that is not paused; the loop is left at the loop-head check,   *)
(* and only there; close() then calls close() on every registered listener and     *)
(* sets stop on every registered dispatcher; from the moment the loop is left no   *)
(* listener is polled and no record is put on a queue.                             *)
C7_CooperativeShutdown ==
    [][/\ (pc = "poll" /\ _exit)
          => \/ pc' = "poll" /\ sweep' = sweep /\ history' = history
             \/ /\ sweep' = Tail(sweep)
                /\ pc' = IF Tail(sweep) = <<>> THEN "sleep" ELSE "poll"
                /\ history' # history
                   => \A id \in Receivers :
                         Received(id[1], dobj[id[1]][id[2]].queue)' =
                            Append(Received(id[1], dobj[id[1]][id[2]].queue),
                                   history'[Len(history')].values)
       /\ (pc = "sleep" /\ _exit) => pc' \in {"sleep", "head"}
       /\ (pc = "head" /\ _exit) => pc' \in {"head", "closing"}
       /\ (pc' = "closing" /\ pc # "closing") => pc = "head" /\ _exit
       /\ pc = "closing"
          => \/ UNCHANGED vars
             \/ /\ pc' = "stopped"
                /\ \A n \in Keys(_listeners) :
                      lobj'[n][_listeners[n]].closed = LiveL(n).closed + 1
                /\ \A n \in Keys(_dispatchers) : dobj'[n][_dispatchers[n]].stop
       /\ pc \in {"closing", "stopped"}
          => /\ sweep' = sweep /\ nrec' = nrec /\ history' = history
             /\ \A n \in DNames : \A q \in 1..Len(queues[n]) :
                   Received(n, q)' = Received(n, q)
             /\ pc' \in {"closing", "stopped"}]_vars

\* the hub is stopped after a record was read with the exit flag set (and
\* received by a dispatcher), a listener and a dispatcher being registered
C7_Witness ==
    /\ pc = "stopped" /\ _exit
    /\ \E i \in 1..Len(history) :
          /\ history[i].exit
          /\ \E id \in history[i].to :
                \E k \in 1..Len(Received(id[1], dobj[id[1]][id[2]].queue)) :
                   Received(id[1], dobj[id[1]][id[2]].queue)[k] = history[i].values
    /\ Keys(_listeners) = LNames
    /\ \A n \in Keys(_listeners) : LiveL(n).closed = 1
    /\ Keys(_dispatchers) # {}
    /\ \A n \in Keys(_dispatchers) : LiveD(n).stop

-----------------------------------------------------------------------------
\* the new settings differ from the old ones in runtime_settings only
RuntimeOnlyChange ==
    /\ settings' # settings
    /\ \A sec \in {"dispatchers", "listeners"} :
          /\ DOMAIN settings'[sec] = DOMAIN settings[sec]
          /\ \A n \in DOMAIN settings[sec] :
                settings'[sec][n] =
                   [k \in DOMAIN settings[sec][n] |->
                       IF k = "runtime_settings"
                       THEN settings'[sec][n].runtime_settings
                       ELSE settings[sec][n][k]]

(* C10: runtime-only changes keep the handles. A settings update whose settings    *)
(* differ from the previous ones only in runtime_settings returns without raising  *)
(* and builds and removes nothing: the same objects are registered, no object is   *)
(* built, every object keeps its init_settings, stop flag, close() count, buffer   *)
(* and queue, every registered dispatcher keeps the queue the hub holds for it,    *)
(* every queue keeps its contents, and set() is called on every registered object. *)
C10_RuntimeChangeKeepsHandles ==
    [][(Tick /\ RuntimeOnlyChange)
       => /\ raised' = "none"
          /\ _dispatchers' = _dispatchers
          /\ _listeners' = _listeners
          /\ \A n \in DNames :
                /\ Len(dobj'[n]) = Len(dobj[n])
                /\ \A g \in 1..Len(dobj[n]) :
                      dobj'[n][g] = [dobj[n][g] EXCEPT !._settings = dobj'[n][g]._settings]
                /\ \A q \in 1..Len(queues[n]) :
                      queues'[n][q] = queues[n][q] /\ taken'[n][q] = taken[n][q]
                /\ _dispatchers[n] # 0 => _queue'[n] = _queue[n]
          /\ \A n \in LNames :
                /\ Len(lobj'[n]) = Len(lobj[n])
                /\ \A g \in 1..Len(lobj[n]) :
                      lobj'[n][g] = [lobj[n][g] EXCEPT !._settings = lobj'[n][g]._settings]
          /\ setcalls' = {<<"dispatcher", n, _dispatchers[n]>> : n \in Keys(_dispatchers)}
                         \cup {<<"listener", n, _listeners[n]>> : n \in Keys(_listeners)}]_vars

\* d1 and d2 each received record 1 on the only queue ever built for them; a
\* settings update then paused d1: the same objects are registered, d1 still
\* holds the record in its queue and has not been stopped
C10_Witness ==
    /\ ticks = 1 /\ raised = "none"
    /\ \A n \in DNames :
          /\ _dispatchers[n] = 1 /\ Len(dobj[n]) = 1 /\ Len(queues[n]) = 1
          /\ ~dobj[n][1].stop
          /\ Len(history) = 1 /\ <<n, 1>> \in history[1].to
          /\ queues[n][1] = <<history[1].values>>
    /\ dobj["d1"][1]._settings = [pause |-> "true"]
    /\ <<"dispatcher", "d1", 1>> \in setcalls

-----------------------------------------------------------------------------
(* C11 *)

\* A queue entry is a reference to the list read() returned at line 90; each
\* read() returns a new list, numbered by n, so two entries with the same n are
\* the same object

(* C11: the dispatchers' queues receive distinct copies of a record: no record   *)
(* object is ever held by the queues of two different dispatchers (so that what   *)
(* one dispatcher does to a record it took cannot be seen by another).            *)
C11_NoSharedRecord ==
    \A n1 \in DNames : \A n2 \in DNames \ {n1} :
       \A q1 \in 1..Len(queues[n1]) : \A q2 \in 1..Len(queues[n2]) :
          \A i \in 1..Len(Received(n1, q1)) : \A j \in 1..Len(Received(n2, q2)) :
             Received(n1, q1)[i].n # Received(n2, q2)[j].n

-----------------------------------------------------------------------------
(* C12 *)

\* the pass the k-th record was read in, counting the passes that read a record
PassOf(k) == Cardinality({i \in 1..k : history[i].first})

\* the records read so far in the pass that is under way
ThisPass ==
    IF passread
    THEN LET start == CHOOSE i \in 1..Len(history) :
                         history[i].first /\ \A j \in (i + 1)..Len(history) : ~history[j].first
         IN  {history[i].values : i \in start..Len(history)}
    ELSE {}

\* every queue of a registered dispatcher holds its records in the order they
\* were read, each once, the records of an earlier pass before those of a later
C12_QueueOrdered ==
    \A n \in Keys(_dispatchers) :
       LET R == Received(n, LiveD(n).queue)
       IN  \A i \in 1..Len(R) : \A j \in 1..Len(R) :
              i < j => R[i].n < R[j].n /\ PassOf(R[i].n) <= PassOf(R[j].n)

\* a record is read from the listener the pass has reached, the listeners that
\* produced the earlier records of the pass have been passed, and the record goes
\* to the end of the queue of every dispatcher that receives it
C12_ReadAppends ==
    nrec' # nrec
    => LET e == history'[Len(history')]
       IN  /\ e.values.listener = Head(sweep)
           /\ e.values.n = Len(history')
           /\ \A v \in ThisPass : \A k \in 1..Len(sweep) : v.listener # sweep[k]
           /\ \A id \in e.to :
                 LET q == dobj[id[1]][id[2]].queue
                 IN  Received(id[1], q)' = Append(Received(id[1], q), e.values)

(* C12: for every registered dispatcher and every listener, the listener's records *)
(* are in the dispatcher's queue in the order the listener produced them, none     *)
(* reordered and none twice; the records that different listeners produce in one   *)
(* pass are in the order in which the pass visited the listeners; and the records  *)
(* of a pass are before those of every later pass.                                 *)
C12_DeliveryOrder == []C12_QueueOrdered /\ [][C12_ReadAppends]_vars

\* d1's queue holds record 1, read from l2, before record 2, read from l1 later
\* in the same pass
C12_Witness ==
    /\ _dispatchers["d1"] # 0
    /\ Len(history) = 2 /\ history[1].first /\ ~history[2].first
    /\ LET R == Received("d1", LiveD("d1").queue)
       IN  /\ Len(R) = 2
           /\ R[1] = [listener |-> "l2", n |-> 1]
           /\ R[2] = [listener |-> "l1", n |-> 2]

-----------------------------------------------------------------------------
(* C13 *)

\* what C13 says of a settings update in which the constructor of dispatcher n
\* (of listener n) raised its init error, which lines 163-165 and 194-196 catch and log
DispatcherRejected(n) ==
    /\ _dispatchers'[n] = 0
    /\ Len(dobj'[n]) = Len(dobj[n])
    /\ \A g \in 1..Len(dobj'[n]) : <<"dispatcher", n, g>> \notin setcalls'
    /\ \A m \in DOMAIN settings'.dispatchers \ {n} :
          LET dis == settings'.dispatchers[m]
          IN  /\ ValidDispatcher(dis)
                 => _dispatchers'[m] # 0 /\ LiveD(m)'.init_settings = dis.init_settings
              /\ (/\ _dispatchers[m] # 0 /\ "type" \in DOMAIN dis
                  /\ LiveD(m).init_settings = dis.init_settings)
                 => _dispatchers'[m] = _dispatchers[m] /\ ~LiveD(m)'.stop
ListenerRejected(n) ==
    /\ _listeners'[n] = 0
    /\ Len(lobj'[n]) = Len(lobj[n])
    /\ \A g \in 1..Len(lobj'[n]) : <<"listener", n, g>> \notin setcalls'
    /\ \A m \in DOMAIN settings'.listeners \ {n} :
          LET lis == settings'.listeners[m]
          IN  ValidListener(lis)
              => _listeners'[m] # 0 /\ LiveL(m)'.init_settings = lis.init_settings

(* C13: a rejecting constructor is isolated. In a settings update in which the     *)
(* constructor of a dispatcher or listener raises its init error (the error is     *)
(* logged), no object is registered or built for the name, set() is not called     *)
(* for it, no exception leaves the update, and every other descriptor of the       *)
(* section is processed as if the failing one were absent: the valid ones are      *)
(* registered with their init_settings, and a registered dispatcher whose          *)
(* init_settings have not changed is neither deleted nor rebuilt.                  *)
C13_RejectionIsolated ==
    [][/\ \A n \in DNames :
             (Update /\ <<"dispatcher", n>> \in errors')
             => raised' = "none" /\ DispatcherRejected(n)
       /\ \A n \in LNames :
             (Update /\ <<"listener", n>> \in errors')
             => raised' = "none" /\ ListenerRejected(n)]_vars

\* the same, of the settings updates that return: C13 fails only where the
\* update is left by the KeyError of C4 or the AttributeError of C6
C13_RejectionIsolatedOnReturn ==
    [][/\ \A n \in DNames :
             (Update /\ raised' = "none" /\ <<"dispatcher", n>> \in errors')
             => DispatcherRejected(n)
       /\ \A n \in LNames :
             (Update /\ raised' = "none" /\ <<"listener", n>> \in errors')
             => ListenerRejected(n)]_vars

-----------------------------------------------------------------------------
(* C14 *)

\* a descriptor without 'type', or with the empty string as its 'type'
NotInstantiable(desc) == "type" \notin DOMAIN desc \/ desc.type = ""

\* nothing else in the new settings can make the update fail: every name that is
\* registered is still listed, and every descriptor but n's is valid
OthersRegular(n) ==
    /\ Keys(_dispatchers) \subseteq DOMAIN settings'.dispatchers
    /\ Keys(_listeners) \subseteq DOMAIN settings'.listeners
    /\ \A m \in DOMAIN settings'.dispatchers \ {n} : ValidDispatcher(settings'.dispatchers[m])
    /\ \A m \in DOMAIN settings'.listeners \ {n} : ValidListener(settings'.listeners[m])

(* C14: descriptors that cannot be instantiated are skipped. In a settings update  *)
(* whose settings hold, for a name that is not registered, a descriptor without    *)
(* 'type' or with an empty 'type', all else in the settings being regular, the     *)
(* descriptor is skipped: no object is built or registered for the name, no queue  *)
(* is created for it, no error is logged, nothing is raised, and the other         *)
(* descriptors are processed: each has an object registered.                       *)
C14_NotInstantiableSkipped ==
    [][/\ \A n \in DNames :
             (/\ Update /\ _dispatchers[n] = 0
              /\ n \in DOMAIN settings'.dispatchers
              /\ NotInstantiable(settings'.dispatchers[n])
              /\ OthersRegular(n))
             => /\ raised' = "none"
                /\ _dispatchers'[n] = 0 /\ Len(dobj'[n]) = Len(dobj[n])
                /\ _queue'[n] = _queue[n] /\ Len(queues'[n]) = Len(queues[n])
                /\ <<"dispatcher", n>> \notin errors'
                /\ Keys(_dispatchers') = DOMAIN settings'.dispatchers \ {n}
                /\ Keys(_listeners') = DOMAIN settings'.listeners
       /\ \A n \in LNames :
             (/\ Update /\ _listeners[n] = 0
              /\ n \in DOMAIN settings'.listeners
              /\ NotInstantiable(settings'.listeners[n])
              /\ OthersRegular(n))
             => /\ raised' = "none"
                /\ _listeners'[n] = 0 /\ Len(lobj'[n]) = Len(lobj[n])
                /\ <<"listener", n>> \notin errors'
                /\ Keys(_listeners') = DOMAIN settings'.listeners \ {n}
                /\ Keys(_dispatchers') = DOMAIN settings'.dispatchers]_vars

\* the same, of the descriptors without 'type' only: these are skipped
C14_NoTypeSkipped ==
    [][/\ \A n \in DNames :
             (/\ Update /\ _dispatchers[n] = 0
              /\ n \in DOMAIN settings'.dispatchers
              /\ "type" \notin DOMAIN settings'.dispatchers[n]
              /\ OthersRegular(n))
             => /\ raised' = "none"
                /\ _dispatchers'[n] = 0 /\ Len(dobj'[n]) = Len(dobj[n])
                /\ _queue'[n] = _queue[n] /\ Len(queues'[n]) = Len(queues[n])
                /\ <<"dispatcher", n>> \notin errors'
                /\ Keys(_dispatchers') = DOMAIN settings'.dispatchers \ {n}
                /\ Keys(_listeners') = DOMAIN settings'.listeners
       /\ \A n \in LNames :
             (/\ Update /\ _listeners[n] = 0
              /\ n \in DOMAIN settings'.listeners
              /\ "type" \notin DOMAIN settings'.listeners[n]
              /\ OthersRegular(n))
             => /\ raised' = "none"
                /\ _listeners'[n] = 0 /\ Len(lobj'[n]) = Len(lobj[n])
                /\ <<"listener", n>> \notin errors'
                /\ Keys(_listeners') = DOMAIN settings'.listeners \ {n}
                /\ Keys(_dispatchers') = DOMAIN settings'.dispatchers]_vars

-----------------------------------------------------------------------------
(* C15 *)

\* the loop of run() is under way
Running == pc \in {"head", "settings", "poll", "sleep"}

(* C15: shutdown is honoured. The signal can arrive at every point of the loop     *)
(* (at its head, before the settings check, between two polls, in the sleep; a     *)
(* signal during the settings update sets the flag only, which the update does not *)
(* read). The exit flag, once set, is never cleared; with the flag set the         *)
(* loop-head check leaves the loop; once left, the loop is never entered again;    *)
(* and, every poll and settings update returning, a hub whose flag is set          *)
(* eventually is stopped (a settings update that raises does not return: the       *)
(* process ends there).                                                            *)
C15_ShutdownHonoured ==
    /\ [](Running => ENABLED _sigint_handler)
    /\ [][_exit => _exit']_vars
    /\ [][(_exit /\ pc = "head" /\ pc' # "head") => pc' = "closing"]_vars
    /\ [][(pc \in {"closing", "stopped"}) => (pc' \in {"closing", "stopped"})]_vars
    /\ (_exit ~> (pc = "stopped" \/ pc = "crashed"))

\* the signal arrived between two polls of a pass, the pass and a settings update
\* were completed, and the hub is stopped: its listeners are closed and its
\* dispatchers told to stop
C15_Witness ==
    /\ pc = "stopped" /\ _exit /\ ticks = 1 /\ raised = "none"
    /\ Len(history) = 2 /\ ~history[1].exit /\ history[2].exit /\ ~history[2].first
    /\ \A n \in Keys(_listeners) : LiveL(n).closed = 1
    /\ \A n \in Keys(_dispatchers) : LiveD(n).stop
    /\ Keys(_listeners) # {} /\ Keys(_dispatchers) # {}

-----------------------------------------------------------------------------
(* C16 *)

\* a step of the loop of run() other than a settings update (and other than a
\* dispatcher's own thread taking a record into its buffer)
LoopStepWithoutUpdate ==
    /\ Running /\ ticks' = ticks
    /\ \A n \in DNames : \A q \in 1..Len(taken[n]) :
          q <= Len(taken'[n]) /\ taken'[n][q] = taken[n][q]

(* C16: the settings are applied only when they changed. A step of the loop in    *)
(* which check_settings() reports no change does not call _update_settings (no     *)
(* set() call, no logged error, no exception, temp_buffer kept), and no step of    *)
(* an iteration without a settings update changes which listeners and dispatchers  *)
(* are registered, their objects (init_settings, stop flag, buffer, closed), or    *)
(* which queue the hub holds for a name: such a step changes at most the contents  *)
(* of the queues, by appending records.                                            *)
C16_UpdateOnlyOnChange ==
    [][LoopStepWithoutUpdate
       => /\ settings' = settings /\ temp_buffer' = temp_buffer
          /\ errors' = errors /\ setcalls' = setcalls /\ raised' = raised
          /\ _dispatchers' = _dispatchers /\ _listeners' = _listeners
          /\ dobj' = dobj /\ lobj' = lobj
          /\ _queue' = _queue
          /\ \A n \in DNames :
                /\ Len(queues'[n]) = Len(queues[n])
                /\ \A q \in 1..Len(queues[n]) :
                      /\ Len(queues'[n][q]) >= Len(queues[n][q])
                      /\ SubSeq(queues'[n][q], 1, Len(queues[n][q])) = queues[n][q]]_vars

\* two iterations have gone by without a settings update and each read a record:
\* d1 is the object that was registered at construction, it holds both records,
\* and nothing was taken from its queue or stopped
C16_Witness ==
    /\ pc = "head" /\ ticks = 0 /\ raised = "none"
    /\ Len(history) = 2 /\ history[1].first /\ history[2].first
    /\ _dispatchers["d1"] = 1 /\ Len(dobj["d1"]) = 1 /\ ~dobj["d1"][1].stop
    /\ _queue["d1"] = 1 /\ Len(queues["d1"]) = 1
    /\ queues["d1"][1] = <<history[1].values, history[2].values>>

-----------------------------------------------------------------------------
(* C17 *)

\* in hub h every dispatcher object that is not registered has its stop flag set,
\* so that at most one object per name has not
StoppedUnlessRegistered(h) ==
    \A n \in DNames :
       /\ \A g \in 1..Len(h.dobj[n]) : g # h._dispatchers[n] => h.dobj[n][g].stop
       /\ Cardinality({g \in 1..Len(h.dobj[n]) : ~h.dobj[n][g].stop}) <= 1

\* a settings update can be the next step of the main thread
UpdateAhead == pc = "init" \/ (pc = "settings" /\ ticks < MaxTicks)

\* the hub between the two dispatcher loops of a settings update, after the
\* deletions of lines 135-146 and before the constructions of lines 147-170
AfterDeletions(s, o) ==
    DeleteDispatchers([Hub EXCEPT !.temp_buffer = <<>>, !.errors = {}, !.setcalls = {},
                                  !.raised = "none"], s, o.dd)

(* C17: stopped before dropped. In every reachable state every dispatcher object   *)
(* that was registered and no longer is has its stop flag set, so at most one      *)
(* object per name has its stop flag not set; and the same is true inside every    *)
(* settings update at the point where the deletions are done and no replacement    *)
(* has been constructed yet: the flag is set with the removal, before the          *)
(* construction of a replacement.                                                  *)
C17_StoppedBeforeDropped ==
    /\ StoppedUnlessRegistered(Hub)
    /\ UpdateAhead
       => \A s \in Snapshots : \A dd \in Orders(Keys(_dispatchers)) :
             StoppedUnlessRegistered(AfterDeletions(s, [dd |-> dd]))

\* d1 was rebuilt while the hub runs: the first object is stopped and no longer
\* registered, the second is registered and not stopped
C17_Witness ==
    /\ Running /\ raised = "none"
    /\ Len(dobj["d1"]) = 2 /\ _dispatchers["d1"] = 2
    /\ dobj["d1"][1].stop /\ ~dobj["d1"][2].stop
    /\ dobj["d1"][1].init_settings # dobj["d1"][2].init_settings

-----------------------------------------------------------------------------
(* C18 *)

(* C18: the hub and the dispatcher share the queue. In every reachable state, for  *)
(* every registered dispatcher, the queue the hub holds for the name, which is the *)
(* one line 100 puts records on, is the queue the registered object was            *)
(* constructed with.                                                               *)
C18_SharedQueue ==
    \A n \in Keys(_dispatchers) :
       /\ _queue[n] # 0
       /\ _queue[n] = LiveD(n).queue

\* d1's constructor failed at first, leaving a queue behind; the object built by
\* the next settings update was given a second queue, which is the one the hub
\* holds and on which the record read since has been put
C18_Witness ==
    /\ ticks = 1 /\ raised = "none"
    /\ Len(dobj["d1"]) = 1 /\ _dispatchers["d1"] = 1
    /\ Len(queues["d1"]) = 2 /\ _queue["d1"] = 2 /\ dobj["d1"][1].queue = 2
    /\ queues["d1"][1] = <<>> /\ taken["d1"][1] = <<>>
    /\ Len(Received("d1", 2)) >= 1

-----------------------------------------------------------------------------
(* C19 *)

(* C19: no record is put on the queue of a stopped dispatcher. Once the hub has    *)
(* set the stop flag of a dispatcher object (deleting or rebuilding it in a        *)
(* settings update, or in close()), no step puts a record on the queue that        *)
(* object was constructed with: what the queue has received stays what it is.      *)
C19_NoPutAfterStop ==
    [][\A n \in DNames : \A g \in 1..Len(dobj[n]) :
          dobj[n][g].stop
          => /\ dobj'[n][g].stop
             /\ Received(n, dobj[n][g].queue)' = Received(n, dobj[n][g].queue)]_vars

\* d1 was deleted and stopped by the settings update, not being paused; the
\* record read afterwards went to d2 and not to d1's queue, which is still the
\* queue the hub holds for the name
C19_Witness ==
    /\ ticks = 1 /\ raised = "none"
    /\ Len(dobj["d1"]) = 1 /\ dobj["d1"][1].stop /\ _dispatchers["d1"] = 0
    /\ ~Paused(dobj["d1"][1])
    /\ _queue["d1"] = dobj["d1"][1].queue
    /\ Received("d1", dobj["d1"][1].queue) = <<>>
    /\ Len(history) >= 1
    /\ \E i \in 1..Len(history) : \E g \in 1..Len(dobj["d2"]) : <<"d2", g>> \in history[i].to

-----------------------------------------------------------------------------
(* C20 *)

\* in hub h every listener object that is not registered has been closed once,
\* and none has been closed more than once
ClosedOnceUnlessRegistered(h) ==
    \A n \in LNames : \A g \in 1..Len(h.lobj[n]) :
       /\ h.lobj[n][g].closed <= 1
       /\ g # h._listeners[n] => h.lobj[n][g].closed = 1

\* the hub between the two listener loops of a settings update, after the
\* deletions of lines 173-183 and before the constructions of lines 184-202
AfterListenerDeletions(s, o) ==
    DeleteListeners(CreateDispatchers(AfterDeletions(s, o), s, o.cd), s, o.dl)

(* C20: listeners are closed once, and before they are replaced. In every          *)
(* reachable state no listener object has been closed more than once; every        *)
(* object that was registered and no longer is has been closed, and this is so     *)
(* inside every settings update at the point where the deletions are done and no   *)
(* replacement has been constructed yet; while the loop runs no registered object  *)
(* is closed, and the pass calls run() and read() only on registered objects that  *)
(* are not closed; and once the hub is stopped every object ever registered has    *)
(* been closed exactly once.                                                       *)
C20_ClosedOnce ==
    /\ ClosedOnceUnlessRegistered(Hub)
    /\ UpdateAhead
       => \A s \in Snapshots :
             \A dd \in Orders(Keys(_dispatchers)) : \A cd \in Orders(DOMAIN s.dispatchers) :
                \A dl \in Orders(Keys(_listeners)) :
                   ClosedOnceUnlessRegistered(
                      AfterListenerDeletions(s, [dd |-> dd, cd |-> cd, dl |-> dl]))
    /\ Running => \A n \in Keys(_listeners) : LiveL(n).closed = 0
    /\ pc = "poll"
       => \A k \in 1..Len(sweep) : _listeners[sweep[k]] # 0 /\ LiveL(sweep[k]).closed = 0
    /\ pc = "stopped"
       => \A n \in LNames : \A g \in 1..Len(lobj[n]) : lobj[n][g].closed = 1

\* l1 was rebuilt by a settings update, which closed the first object; the second
\* was polled and produced a record, and close() closed it at shutdown
C20_Witness ==
    /\ pc = "stopped" /\ ticks = 1 /\ raised = "none"
    /\ Len(lobj["l1"]) = 2 /\ _listeners["l1"] = 2
    /\ lobj["l1"][1].closed = 1 /\ lobj["l1"][2].closed = 1
    /\ \E i \in 1..Len(history) : history[i].values.listener = "l1"

====
